---- MODULE Spec2Model ----
(***************************************************************************)
(* Model of the raffle manager of App.tsx (src/unnamed/part_001): the      *)
(* participant and prize registries, the winner ledger, the audit log and  *)
(* the draw engine with its countdown / rolling phases.                    *)
(*                                                                         *)
(* Numbers.  Ticket counts are JavaScript numbers and the code accepts     *)
(* fractional ones, so every number that comes from Number(...) is kept in *)
(* HALVES: the value 3 stands for 1.5, the value 4 for 2.  Coupon numbers  *)
(* (loop counters) are plain integers.                                     *)
(*                                                                         *)
(* Left out: the timestamp of a Winner / the date and time of an audit     *)
(* row, the highlight overlay, confetti, tabs, presenter mode, the search  *)
(* box and the local-storage write-through (Init is the state with empty   *)
(* storage).  Every handler can run at any time: the tabs are never        *)
(* disabled, so the registries can change while a countdown draw runs.     *)
(*                                                                         *)
(* Teardown.  mounted tells whether the component is mounted.  After the    *)
(* teardown a running drawWithCountdown goes on: countdown and rolling then *)
(* stand for the position of that function, the state updates themselves   *)
(* being dropped.                                                          *)
(*                                                                         *)
(* History variables: lastOp is the last operation recorded with its       *)
(* result (resets and draw-engine steps always, registry operations where  *)
(* the specification asks for it); drawCount counts the successful draws   *)
(* since the winner ledger was last emptied.                               *)
(***************************************************************************)
EXTENDS Integers, Sequences, FiniteSets, TLC

VARIABLES participants, prizes, winners, audit,
          countdown, rolling, rollView, rollTimerRef, intervals,
          closure, mounted, lastOp, drawCount

vars == <<participants, prizes, winners, audit, countdown, rolling, rollView,
          rollTimerRef, intervals, closure, mounted, lastOp, drawCount>>

(* ------------------------------ bounds --------------------------------- *)
MaxPrizes == 2
MaxAudit == 1
MaxLines == 2

(* ------------------------------ inputs --------------------------------- *)
NameInputs == {"", " ", "A", " a", "a", "B"}
QtyInputs == {"", "0", "-1", "x", "1.5", "2"}
EditInputs == {"", "1", "2"}
PrizeInputs == {"", "P", " P", "Q"}
Names == {"A", "a", "B"}
PlainNames == {"A", "B"}
PrizeNames == {"P", "Q"}
DrawQtyInputs == {"1.5"}
DrawEditInputs == {""}
EngineQtyInputs == {"1.5", "2"}
LiveNames == {"A"}
RemovedNames == {"A"}
LiveQtyInputs == {"2"}
BulkLines == { <<"">>, <<"A", "2">>, <<"a", "1.5">>, <<"B", "-1">>, <<"", "B", "2">> }

(* ----------------------- string and number helpers --------------------- *)
\* String.prototype.trim on the strings that occur as inputs
trim(s) ==
  CASE s = " " -> ""
    [] s = " a" -> "a"
    [] s = " P" -> "P"
    [] OTHER -> s

\* String.prototype.toLowerCase on the strings that occur as names
toLowerCase(s) ==
  CASE s = "A" -> "a"
    [] s = "B" -> "b"
    [] OTHER -> s

\* A JavaScript number: NaN, or a finite value h counted in halves
NaN == [nan |-> TRUE, h |-> 0]

Num(h) == [nan |-> FALSE, h |-> h]

\* Number(string) on the strings that occur as inputs
Number(s) ==
  CASE s = "" -> Num(0)
    [] s = "0" -> Num(0)
    [] s = "1" -> Num(2)
    [] s = "2" -> Num(4)
    [] s = "1.5" -> Num(3)
    [] s = "-1" -> Num(-2)
    [] OTHER -> NaN

\* String(number) on the counts that occur, given in halves
String(h) ==
  CASE h = 0 -> "0"
    [] h = 2 -> "1"
    [] h = 3 -> "1.5"
    [] h = 4 -> "2"

isFinite(n) == ~n.nan

\* n || 0 for a number n, as a finite value in halves
OrZero(n) == IF n.nan THEN 0 ELSE n.h

\* Math.max(0, q) for a finite q
Max0(q) == IF q < 0 THEN 0 ELSE q

\* how many integers i satisfy 1 <= i <= q, for a finite q in halves
LoopCount(q) == IF q < 2 THEN 0 ELSE q \div 2

\* Array.prototype.filter(Boolean) on an array of strings
FilterBoolean(xs) == SelectSeq(xs, LAMBDA x : x # "")

(* --------------------------- derived data ------------------------------- *)
\* new Set(winners.map(w => w.name.toLowerCase()))
WinnersSet(ws) == {toLowerCase(ws[i].name) : i \in DOMAIN ws}

\* the coupons 1..qty of one participant
CouponsOf(p) ==
  [i \in 1..LoopCount(Max0(p.qty)) |-> [name |-> p.name, couponNumber |-> i]]

\* mutant: the winner test compares the name as registered
RECURSIVE BuildPoolExact(_, _)
BuildPoolExact(ps, ws) ==
  IF ps = <<>> THEN <<>>
  ELSE IF Head(ps).name \in {ws[i].name : i \in DOMAIN ws}
       THEN BuildPoolExact(Tail(ps), ws)
       ELSE CouponsOf(Head(ps)) \o BuildPoolExact(Tail(ps), ws)

\* the pool loop: participants in order, winners skipped, coupons ascending
RECURSIVE BuildPool(_, _)
BuildPool(ps, ws) ==
  IF ps = <<>> THEN <<>>
  ELSE IF toLowerCase(Head(ps).name) \in WinnersSet(ws)
       THEN BuildPool(Tail(ps), ws)
       ELSE CouponsOf(Head(ps)) \o BuildPool(Tail(ps), ws)

\* mutant: awarded prizes are not filtered out
RemainingOfAll(prz, ws) == prz

\* prizes.filter(pr => !winners.some(w => w.prize === pr.name))
RemainingOf(prz, ws) ==
  SelectSeq(prz, LAMBDA pr : ~\E i \in DOMAIN ws : ws[i].prize = pr.name)

couponsPool == BuildPool(participants, winners)

remainingPrizes == RemainingOf(prizes, winners)

\* participants.find(p => p.name === name)?.qty || 0
QtyOf(ps, name) ==
  IF \E i \in DOMAIN ps : ps[i].name = name
  THEN ps[CHOOSE i \in DOMAIN ps :
            ps[i].name = name /\ \A j \in 1..(i - 1) : ps[j].name # name].qty
  ELSE 0

\* what a running drawWithCountdown has captured: the values of the render
\* in which it was started
NoClosure == [participants |-> <<>>, prizes |-> <<>>, winners |-> <<>>]

CurrentRender ==
  [participants |-> participants, prizes |-> prizes, winners |-> winners]

NoRollView == [name |-> "", couponNumber |-> 0]

Op(op, res) == [op |-> op, res |-> res]

\* lastOp after a registry operation: its name and result when the run records
\* registry operations, else left as it was
Note(rec, op, res) == IF rec THEN Op(op, res) ELSE lastOp

(* ------------------------------- Init ---------------------------------- *)
Init ==
  /\ participants = <<>>
  /\ prizes = <<>>
  /\ winners = <<>>
  /\ audit = <<>>
  /\ countdown = 0
  /\ rolling = FALSE
  /\ rollView = NoRollView
  /\ rollTimerRef = 0
  /\ intervals = {}
  /\ closure = NoClosure
  /\ mounted = TRUE
  /\ lastOp = Op("init", "ok")
  /\ drawCount = 0

engineVars ==
  <<countdown, rolling, rollView, rollTimerRef, intervals, closure, mounted>>

(* ------------------------ participant registry ------------------------- *)
\* mutant: the duplicate test compares the names as typed
AddParticipantUpdateExact(prev, name, qty) ==
  IF \E i \in DOMAIN prev : prev[i].name = name
  THEN prev
  ELSE Append(prev, [name |-> name, qty |-> qty])

\* the updater of setParticipants in addParticipant
AddParticipantUpdate(prev, name, qty) ==
  IF \E i \in DOMAIN prev : toLowerCase(prev[i].name) = toLowerCase(name)
  THEN prev
  ELSE Append(prev, [name |-> name, qty |-> qty])

\* addParticipant with the two input boxes holding nameIn and qtyIn
AddParticipantWith(nameIn, qtyIn, rec) ==
  LET name == trim(nameIn)
      qty == Number(qtyIn)
  IN  /\ IF name = "" \/ ~isFinite(qty) \/ qty.h <= 0
         THEN /\ participants' = participants
              /\ lastOp' = Note(rec, "addParticipant", "rejected")
         ELSE /\ participants' = AddParticipantUpdate(participants, name, qty.h)
              /\ lastOp' = Note(rec, "addParticipant",
                                IF participants' = participants
                                THEN "duplicate" ELSE "added")
      /\ UNCHANGED <<prizes, winners, audit, engineVars, drawCount>>

AddParticipant(nameInputs, qtyInputs, rec) ==
  \E nameIn \in nameInputs, qtyIn \in qtyInputs :
    AddParticipantWith(nameIn, qtyIn, rec)

\* Math.max(0, Number(newQty) || 0)
EditQty(newQty) == Max0(OrZero(Number(newQty)))

\* editParticipantQty for the row of participant i with its box holding newQty
EditParticipantQtyWith(i, newQty, rec) ==
  LET name == participants[i].name
  IN  /\ participants' =
           [j \in DOMAIN participants |->
              IF participants[j].name = name
              THEN [participants[j] EXCEPT !.qty = EditQty(newQty)]
              ELSE participants[j]]
      /\ lastOp' = Note(rec, "editParticipantQty", "ok")
      /\ UNCHANGED <<prizes, winners, audit, engineVars, drawCount>>

\* what the box of row i can hold when it loses focus: the count as the row
\* shows it, or what was typed, non-digits stripped
BoxValues(i, editInputs) == editInputs \cup {String(participants[i].qty)}

EditParticipantQty(editInputs, rec) ==
  \E i \in DOMAIN participants :
    \E newQty \in BoxValues(i, editInputs) :
      EditParticipantQtyWith(i, newQty, rec)

RemoveByName(xs, name) == SelectSeq(xs, LAMBDA x : x.name # name)

\* mutant: the records of the removed participant go with it
RemoveParticipantAndRecords(names, rec) ==
  \E name \in names :
    /\ participants' = RemoveByName(participants, name)
    /\ winners' = RemoveByName(winners, name)
    /\ lastOp' = Note(rec, "removeParticipant",
                      IF participants' = participants THEN "absent" ELSE "removed")
    /\ UNCHANGED <<prizes, audit, engineVars, drawCount>>

RemoveParticipant(names, rec) ==
  \E name \in names :
    /\ participants' = RemoveByName(participants, name)
    /\ lastOp' = Note(rec, "removeParticipant",
                      IF participants' = participants THEN "absent" ELSE "removed")
    /\ UNCHANGED <<prizes, winners, audit, engineVars, drawCount>>

\* the fields of one line, as bulkImport reads them
LineParts(line) == FilterBoolean([k \in DOMAIN line |-> trim(line[k])])

LineName(line) == IF Len(LineParts(line)) >= 1 THEN LineParts(line)[1] ELSE ""

LineQty(line) ==
  Number(IF Len(LineParts(line)) >= 2 THEN LineParts(line)[2] ELSE "0")

\* a line that survives raw.split(/\n+/).map(trim).filter(Boolean)
NonBlank(line) == ~(Len(line) = 1 /\ trim(line[1]) = "")

\* the for loop of bulkImport: the entries to add and the number of lines skipped
RECURSIVE BulkLoop(_, _, _, _)
BulkLoop(lines, lowerExisting, toAdd, skipped) ==
  IF lines = <<>> THEN [toAdd |-> toAdd, skipped |-> skipped]
  ELSE LET line == Head(lines)
           name == LineName(line)
           qty == LineQty(line)
           key == toLowerCase(name)
       IN  IF name = "" \/ ~isFinite(qty) \/ qty.h <= 0
           THEN BulkLoop(Tail(lines), lowerExisting, toAdd, skipped + 1)
           ELSE IF key \in lowerExisting
                   \/ \E i \in DOMAIN toAdd : toLowerCase(toAdd[i].name) = key
                THEN BulkLoop(Tail(lines), lowerExisting, toAdd, skipped + 1)
                ELSE BulkLoop(Tail(lines), lowerExisting,
                              Append(toAdd, [name |-> name, qty |-> qty.h]), skipped)

BulkInputs == UNION {[1..n -> BulkLines] : n \in 1..MaxLines}

\* what bulkImport computes from the text raw in a render whose registry is ps
BulkResult(raw, ps) ==
  BulkLoop(SelectSeq(raw, NonBlank),
           {toLowerCase(ps[i].name) : i \in DOMAIN ps}, <<>>, 0)

\* bulkImport with the text area holding the lines raw
BulkImportWith(raw, rec) ==
  LET lines == SelectSeq(raw, NonBlank)
      r == BulkResult(raw, participants)
  IN  /\ IF lines = <<>>
         THEN /\ participants' = participants
              /\ lastOp' = Note(rec, "bulkImport", "empty")
         ELSE /\ participants' = participants \o r.toAdd
              /\ lastOp' = Note(rec, "bulkImport",
                                IF r.skipped > 0 THEN "skipped" ELSE "all")
      /\ UNCHANGED <<prizes, winners, audit, engineVars, drawCount>>

BulkImport(rec) == \E raw \in BulkInputs : BulkImportWith(raw, rec)

(* --------------------------- prize registry ---------------------------- *)
AddPrize(prizeInputs, rec) ==
  \E nmIn \in prizeInputs :
    LET nm == trim(nmIn)
    IN  /\ Len(prizes) < MaxPrizes
        /\ IF nm = ""
           THEN /\ prizes' = prizes
                /\ lastOp' = Note(rec, "addPrize", "rejected")
           ELSE /\ prizes' = Append(prizes, [name |-> nm, order |-> Len(prizes) + 1])
                /\ lastOp' = Note(rec, "addPrize", "added")
        /\ UNCHANGED <<participants, winners, audit, engineVars, drawCount>>

\* mutant: the remaining prizes keep their old draw-order
RemovePrizeUpdateNoRenumber(prev, name) == RemoveByName(prev, name)

\* prev.filter(p => p.name !== name).map((p, i) => ({...p, order: i + 1}))
RemovePrizeUpdate(prev, name) ==
  LET kept == RemoveByName(prev, name)
  IN  [i \in DOMAIN kept |-> [kept[i] EXCEPT !.order = i]]

RemovePrize(rec) ==
  \E k \in DOMAIN prizes :
    /\ prizes' = RemovePrizeUpdate(prizes, prizes[k].name)
    /\ lastOp' = Note(rec, "removePrize", prizes[k].name)
    /\ UNCHANGED <<participants, winners, audit, engineVars, drawCount>>

(* ------------------------------ resets --------------------------------- *)
\* mutant: the reset and clear buttons are never disabled
ControlsAlwaysEnabled == TRUE

\* the disabled attribute of the reset and clear buttons
ControlsEnabled == ~(rolling \/ countdown > 0)

\* mutant: the audit log is emptied with the ledger
resetWinnersAndAudit ==
  /\ ControlsEnabled
  /\ winners' = <<>>
  /\ audit' = <<>>
  /\ drawCount' = 0
  /\ lastOp' = Op("resetWinners", "ok")
  /\ UNCHANGED <<participants, prizes, engineVars>>

\* mutant: the first Winner record survives the reset
resetWinnersKeepsFirst ==
  /\ ControlsEnabled
  /\ winners' = IF winners = <<>> THEN <<>> ELSE <<winners[1]>>
  /\ drawCount' = Len(winners')
  /\ lastOp' = Op("resetWinners", "ok")
  /\ UNCHANGED <<participants, prizes, audit, engineVars>>

resetWinners ==
  /\ ControlsEnabled
  /\ winners' = <<>>
  /\ drawCount' = 0
  /\ lastOp' = Op("resetWinners", "ok")
  /\ UNCHANGED <<participants, prizes, audit, engineVars>>

\* mutant: the audit log is left as it is
hardResetKeepsAudit ==
  \E confirm \in BOOLEAN :
    /\ ControlsEnabled
    /\ IF ~confirm
       THEN /\ UNCHANGED <<participants, prizes, winners, drawCount>>
            /\ lastOp' = Op("hardReset", "declined")
       ELSE /\ participants' = <<>>
            /\ prizes' = <<>>
            /\ winners' = <<>>
            /\ drawCount' = 0
            /\ lastOp' = Op("hardReset", "confirmed")
    /\ UNCHANGED <<audit, engineVars>>

hardReset ==
  \E confirm \in BOOLEAN :
    /\ ControlsEnabled
    /\ IF ~confirm
       THEN /\ UNCHANGED <<participants, prizes, winners, audit, drawCount>>
            /\ lastOp' = Op("hardReset", "declined")
       ELSE /\ participants' = <<>>
            /\ prizes' = <<>>
            /\ winners' = <<>>
            /\ audit' = <<>>
            /\ drawCount' = 0
            /\ lastOp' = Op("hardReset", "confirmed")
    /\ UNCHANGED engineVars

clearAudit ==
  /\ ControlsEnabled
  /\ audit' = <<>>
  /\ lastOp' = Op("clearAudit", "ok")
  /\ UNCHANGED <<participants, prizes, winners, engineVars, drawCount>>

(* ---------------------------- draw engine ------------------------------ *)
\* the prize drawCore awards: currentRemaining[0]
TargetPrize(prz, ws) == RemainingOf(prz, ws)[1]

\* The outcomes of drawCore in a render c: the empty set when it returns
\* null, else one (win, audit row) per index Math.random() can pick.
DrawCoreOutcomes(c) ==
  LET currentPool == BuildPool(c.participants, c.winners)
      currentRemaining == RemainingOf(c.prizes, c.winners)
  IN  IF currentPool = <<>> \/ currentRemaining = <<>> THEN {}
      ELSE {[win |-> [name |-> currentPool[idx].name,
                      couponNumber |-> currentPool[idx].couponNumber,
                      prize |-> TargetPrize(c.prizes, c.winners).name],
             row |-> [Participante |-> currentPool[idx].name,
                      Cupom |-> currentPool[idx].couponNumber,
                      QtdeCupons |-> QtyOf(c.participants, currentPool[idx].name),
                      Premio |-> TargetPrize(c.prizes, c.winners).name]]
            : idx \in DOMAIN currentPool}

\* drawCore run in render c: its state updates apply to the current ledger and
\* log.  MaxAudit caps the audit log: a draw that would append a row runs only
\* while the log has room.
DrawCore(c, op) ==
  IF DrawCoreOutcomes(c) = {}
  THEN /\ UNCHANGED <<winners, audit, drawCount>>
       /\ lastOp' = Op(op, "null")
  ELSE \E o \in DrawCoreOutcomes(c) :
         /\ Len(audit) < MaxAudit
         /\ winners' = Append(winners, o.win)
         /\ audit' = Append(audit, o.row)
         /\ drawCount' = drawCount + 1
         /\ lastOp' = Op(op, "win")

\* mutant: the guard forgets the countdown
BusyRollingOnly == rolling

\* the guard of draw and drawWithCountdown
Busy == rolling \/ countdown # 0

draw ==
  /\ IF Busy
     THEN /\ UNCHANGED <<winners, audit, drawCount>>
          /\ lastOp' = Op("draw", "refused")
     ELSE DrawCore(CurrentRender, "draw")
  /\ UNCHANGED <<participants, prizes, engineVars>>

\* mutant: the countdown starts without looking at the pool and the prizes
drawWithCountdownUnchecked ==
  /\ IF Busy
     THEN /\ UNCHANGED <<winners, audit, drawCount, engineVars>>
          /\ lastOp' = Op("drawWithCountdown", "refused")
     ELSE /\ Len(audit) < MaxAudit
          /\ countdown' = 3
          /\ closure' = CurrentRender
          /\ lastOp' = Op("drawWithCountdown", "started")
          /\ UNCHANGED <<winners, audit, drawCount, rolling, rollView,
                         rollTimerRef, intervals, mounted>>
  /\ UNCHANGED <<participants, prizes>>

drawWithCountdown ==
  /\ IF Busy
     THEN /\ UNCHANGED <<winners, audit, drawCount, engineVars>>
          /\ lastOp' = Op("drawWithCountdown", "refused")
     ELSE IF ~(Len(couponsPool) > 0) \/ ~(Len(remainingPrizes) > 0)
          THEN /\ DrawCore(CurrentRender, "drawWithCountdown")
               /\ UNCHANGED engineVars
          ELSE /\ Len(audit) < MaxAudit
               /\ countdown' = 3
               /\ closure' = CurrentRender
               /\ lastOp' = Op("drawWithCountdown", "started")
               /\ UNCHANGED <<winners, audit, drawCount, rolling, rollView,
                              rollTimerRef, intervals, mounted>>
  /\ UNCHANGED <<participants, prizes>>

\* window.setInterval: a timer id that is not in use
NewTimer == CHOOSE t \in 1..(Cardinality(intervals) + 1) : t \notin intervals

\* mutant: the countdown loop stops at 2
countdownStepShort ==
  /\ countdown > 0
  /\ IF countdown > 2
     THEN /\ countdown' = countdown - 1
          /\ UNCHANGED <<rolling, rollTimerRef, intervals>>
     ELSE /\ countdown' = 0
          /\ rolling' = TRUE
          /\ rollTimerRef' = NewTimer
          /\ intervals' = (intervals \ {rollTimerRef}) \cup {NewTimer}
  /\ lastOp' = Op("countdownStep", "ok")
  /\ UNCHANGED <<participants, prizes, winners, audit, rollView, closure,
                 mounted, drawCount>>

\* a 700 ms timeout of the countdown loop fires
countdownStep ==
  /\ countdown > 0
  /\ IF countdown > 1
     THEN /\ countdown' = countdown - 1
          /\ UNCHANGED <<rolling, rollTimerRef, intervals>>
     ELSE /\ countdown' = 0
          /\ rolling' = TRUE
          /\ rollTimerRef' = NewTimer
          /\ intervals' = (intervals \ {rollTimerRef}) \cup {NewTimer}
  /\ lastOp' = Op("countdownStep", "ok")
  /\ UNCHANGED <<participants, prizes, winners, audit, rollView, closure,
                 mounted, drawCount>>

\* the 80 ms interval callback, on the pool of the render that started the
\* draw; setRollView does nothing once the component is unmounted
rollTick ==
  /\ intervals # {}
  /\ LET currentPool == BuildPool(closure.participants, closure.winners)
     IN  IF currentPool = <<>> \/ ~mounted
         THEN UNCHANGED rollView
         ELSE \E idx \in DOMAIN currentPool :
                rollView' = [name |-> currentPool[idx].name,
                             couponNumber |-> currentPool[idx].couponNumber]
  /\ lastOp' = Op("rollTick", "ok")
  /\ UNCHANGED <<participants, prizes, winners, audit, countdown, rolling,
                 rollTimerRef, intervals, closure, mounted, drawCount>>

\* the 1800 ms timeout fires: rolling ends and drawCore of the starting render
\* runs; its state updates do nothing once the component is unmounted
settle ==
  /\ rolling
  /\ rolling' = FALSE
  /\ intervals' = intervals \ {rollTimerRef}
  /\ rollTimerRef' = 0
  /\ IF mounted
     THEN DrawCore(closure, "settle")
     ELSE /\ UNCHANGED <<winners, audit, drawCount>>
          /\ lastOp' = Op("settle", "unmounted")
  /\ closure' = NoClosure
  /\ UNCHANGED <<participants, prizes, countdown, rollView, mounted>>

\* the component is torn down: the cleanup of the timer effect runs.  The
\* timeouts of a running drawWithCountdown stay pending.
unmount ==
  /\ mounted
  /\ mounted' = FALSE
  /\ intervals' = intervals \ {rollTimerRef}
  /\ lastOp' = Op("unmount", "ok")
  /\ UNCHANGED <<participants, prizes, winners, audit, countdown, rolling,
                 rollView, rollTimerRef, closure, drawCount>>

(* ------------------------------ the system ----------------------------- *)
\* The registries alone, with every kind of input: valid, invalid, untrimmed
\* and colliding names and counts, single and bulk.
NextRegistry ==
  \/ AddParticipant(NameInputs, QtyInputs, TRUE)
  \/ BulkImport(TRUE)
  \/ EditParticipantQty(EditInputs, TRUE)
  \/ RemoveParticipant(Names, TRUE)
  \/ AddPrize(PrizeInputs, TRUE)
  \/ RemovePrize(TRUE)
  \/ hardReset

SpecRegistry == Init /\ [][NextRegistry]_vars

\* The whole application: registries, resets and both kinds of draw, with the
\* registry operations free to run while a countdown draw is in flight.  Names
\* differ by more than case here; SpecLedger has the names that differ by case.
Next ==
  \/ AddParticipant(PlainNames, DrawQtyInputs, FALSE)
  \/ RemoveParticipant(PlainNames, FALSE)
  \/ AddPrize(PrizeNames, FALSE)
  \/ RemovePrize(FALSE)
  \/ resetWinners
  \/ hardReset
  \/ clearAudit
  \/ draw
  \/ drawWithCountdown
  \/ countdownStep
  \/ settle

Spec == Init /\ [][Next]_vars

\* The ledger against the participant registry: participants are registered,
\* edited, removed and registered again, also while a countdown draw is in
\* flight; prizes are only registered.
NextLedger ==
  \/ AddParticipant(Names, DrawQtyInputs, FALSE)
  \/ EditParticipantQty(DrawEditInputs, FALSE)
  \/ RemoveParticipant(Names, FALSE)
  \/ AddPrize(PrizeNames, FALSE)
  \/ resetWinners
  \/ clearAudit
  \/ draw
  \/ drawWithCountdown
  \/ countdownStep
  \/ settle

SpecLedger == Init /\ [][NextLedger]_vars

\* The records against every operation: the handlers of Spec and the edit of a
\* ticket-count.  A and B are registered and edited; A is also removed.
NextRecords ==
  \/ AddParticipant(PlainNames, DrawQtyInputs, FALSE)
  \/ EditParticipantQty(DrawEditInputs, FALSE)
  \/ RemoveParticipant(RemovedNames, FALSE)
  \/ AddPrize(PrizeNames, FALSE)
  \/ RemovePrize(FALSE)
  \/ resetWinners
  \/ hardReset
  \/ clearAudit
  \/ draw
  \/ drawWithCountdown
  \/ countdownStep
  \/ settle

SpecRecords == Init /\ [][NextRecords]_vars

\* The draw engine with its timers: the countdown timeouts, the rolling
\* interval and the settlement, over registries that only grow.
NextEngine ==
  \/ AddParticipant(Names, EngineQtyInputs, FALSE)
  \/ AddPrize(PrizeNames, FALSE)
  \/ resetWinners
  \/ clearAudit
  \/ draw
  \/ drawWithCountdown
  \/ countdownStep
  \/ rollTick
  \/ settle

SpecEngine == Init /\ [][NextEngine]_vars

\* The draw engine with its timers and the fairness of the event loop: the
\* timeouts of a running countdown draw fire.  One participant with two
\* tickets, so that the roll view has something to show.
NextLive ==
  \/ AddParticipant(LiveNames, LiveQtyInputs, FALSE)
  \/ AddPrize(PrizeNames, FALSE)
  \/ resetWinners
  \/ clearAudit
  \/ draw
  \/ drawWithCountdown
  \/ countdownStep
  \/ rollTick
  \/ settle

SpecLive ==
  Init /\ [][NextLive]_vars /\ WF_vars(countdownStep) /\ WF_vars(settle)

\* The component can be torn down at any time, also while a countdown draw is
\* in flight.  The handlers run only while it is mounted; the timeouts and the
\* interval of a running draw fire whether it is mounted or not.
NextTeardown ==
  \/ mounted /\ AddParticipant(PlainNames, EngineQtyInputs, FALSE)
  \/ mounted /\ AddPrize(PrizeNames, FALSE)
  \/ mounted /\ resetWinners
  \/ mounted /\ clearAudit
  \/ mounted /\ draw
  \/ mounted /\ drawWithCountdown
  \/ countdownStep
  \/ rollTick
  \/ settle
  \/ unmount

SpecTeardown == Init /\ [][NextTeardown]_vars

(* ------------------------------- claims -------------------------------- *)
NamesOf(xs) == [i \in DOMAIN xs |-> xs[i].name]

\* C1: no two participants of the registry have names that are equal when
\* compared case-insensitively.
C1_UniqueNames ==
  \A i, j \in DOMAIN participants :
    i # j => toLowerCase(participants[i].name) # toLowerCase(participants[j].name)

\* a registration was turned down as a duplicate while two participants are registered
C1_Witness ==
  /\ lastOp = Op("addParticipant", "duplicate")
  /\ Len(participants) = 2

HasWon(p) ==
  \E j \in DOMAIN winners : toLowerCase(winners[j].name) = toLowerCase(p.name)

\* the prize's name is in the winner ledger
Awarded(pr) == \E j \in DOMAIN winners : winners[j].prize = pr.name

\* the prizes of the registry that are not awarded, in draw-order
Unawarded == SelectSeq(prizes, LAMBDA pr : ~Awarded(pr))

\* the sum of the ticket-counts (in halves) of the participants that have not won
RECURSIVE SumCounts(_)
SumCounts(ps) ==
  IF ps = <<>> THEN 0
  ELSE (IF HasWon(Head(ps)) THEN 0 ELSE Head(ps).qty) + SumCounts(Tail(ps))

\* the ticket numbers the pool holds for a name
TicketsOf(name) ==
  {couponsPool[k].couponNumber : k \in {k \in DOMAIN couponsPool : couponsPool[k].name = name}}

\* C2: no two entries of the winner ledger have names that are equal
\* case-insensitively: a participant whose name is in the ledger is not drawn
\* again, whatever the ticket-count, also after an edit or after being
\* removed and registered again.
C2_WinnersOnce ==
  \A i, j \in DOMAIN winners :
    i # j => toLowerCase(winners[i].name) # toLowerCase(winners[j].name)

\* "A" won, is registered again as "a" with tickets, and a later draw took place
C2_Witness ==
  /\ Len(winners) = 2
  /\ winners[1].name = "A"
  /\ \E i \in DOMAIN participants :
       participants[i].name = "a" /\ participants[i].qty >= 2

\* C3: after N successful draws since the ledger was last empty the ledger has
\* exactly N entries, and no prize name occurs in two of them.
C3_LedgerCount ==
  /\ Len(winners) = drawCount
  /\ \A i, j \in DOMAIN winners : i # j => winners[i].prize # winners[j].prize

\* two draws succeeded since the ledger was last empty, the second one a countdown draw
C3_Witness ==
  /\ drawCount = 2
  /\ lastOp = Op("settle", "win")

\* C4: whenever a draw appends a Winner record, its prize is the un-awarded
\* prize of the registry, as it is at that moment, with the lowest draw-order.
C4_LowestUnawarded ==
  [][Len(winners') = Len(winners) + 1 =>
       /\ Unawarded # <<>>
       /\ winners'[Len(winners')].prize = Unawarded[1].name
    ]_vars

\* C6: the pool has as many entries as the sum of the ticket-counts of the
\* participants that have not won, namely the tickets 1..ticket-count of each.
C6_PoolMatchesCounts ==
  /\ 2 * Len(couponsPool) = SumCounts(participants)
  /\ \A i \in DOMAIN participants :
       ~HasWon(participants[i]) =>
         TicketsOf(participants[i].name)
           = {n \in 1..participants[i].qty : 2 * n <= participants[i].qty}

\* no participant that has not won holds a ticket
C7_NoTicket ==
  \A i \in DOMAIN participants : HasWon(participants[i]) \/ participants[i].qty < 2

\* every prize of the registry is awarded
C7_NoPrize == \A k \in DOMAIN prizes : Awarded(prizes[k])

\* C7: a draw, immediate or countdown, initiated when no eligible ticket or no
\* un-awarded prize exists returns no winner, leaves the ledger and the audit
\* log as they are and does not change the countdown or rolling state.
C7_EmptyDraw ==
  [][((draw \/ drawWithCountdown) /\ (C7_NoTicket \/ C7_NoPrize)) =>
       /\ lastOp'.res \in {"null", "refused"}
       /\ UNCHANGED <<winners, audit, countdown, rolling>>
    ]_vars

\* a countdown draw returned nothing: tickets are left but every prize is awarded
C7_Witness ==
  /\ lastOp = Op("drawWithCountdown", "null")
  /\ countdown = 0 /\ ~rolling
  /\ prizes # <<>> /\ C7_NoPrize /\ ~C7_NoTicket

\* C8: ResetWinners empties the ledger and leaves the participant registry,
\* the prize registry and the audit log as they are.
C8_ResetWinnersFrame ==
  [][resetWinners =>
       /\ winners' = <<>>
       /\ UNCHANGED <<participants, prizes, audit>>
    ]_vars

\* the ledger was reset and is empty while registries and audit log are not
C8_Witness ==
  /\ lastOp = Op("resetWinners", "ok")
  /\ winners = <<>>
  /\ participants # <<>> /\ prizes # <<>> /\ audit # <<>>

\* C9: a confirmed HardReset leaves the four collections empty, a declined one
\* leaves them as they are.
C9_HardReset ==
  [][hardReset =>
       /\ lastOp'.res \in {"confirmed", "declined"}
       /\ lastOp'.res = "confirmed" =>
            participants' = <<>> /\ prizes' = <<>> /\ winners' = <<>> /\ audit' = <<>>
       /\ lastOp'.res = "declined" =>
            UNCHANGED <<participants, prizes, winners, audit>>
    ]_vars

\* a HardReset was declined with all four collections populated
C9_Witness ==
  /\ lastOp = Op("hardReset", "declined")
  /\ participants # <<>> /\ prizes # <<>> /\ winners # <<>> /\ audit # <<>>

\* C10: a draw, immediate or countdown, initiated during the countdown or
\* while rolling is refused: no Winner, no Audit row, no second countdown and
\* no second rolling timer.
C10_NoReentry ==
  [][((rolling \/ countdown > 0) /\ (draw \/ drawWithCountdown)) =>
       /\ lastOp'.res = "refused"
       /\ UNCHANGED <<winners, audit, countdown, rolling, rollTimerRef,
                      intervals, closure>>
    ]_vars

\* a countdown draw was refused while the engine is rolling
C10_Witness ==
  /\ lastOp = Op("drawWithCountdown", "refused")
  /\ rolling

\* the count a string denotes is an integer that is at least 1
PositiveInteger(s) ==
  /\ isFinite(Number(s))
  /\ Number(s).h >= 2
  /\ Number(s).h % 2 = 0

\* the name is in the registry, case-insensitively
Registered(ps, name) ==
  \E i \in DOMAIN ps : toLowerCase(ps[i].name) = toLowerCase(name)

\* C11: every participant of the registry has a ticket-count that is an
\* integer and at least 1.
C11_IntegerCounts ==
  \A i \in DOMAIN participants :
    participants[i].qty >= 2 /\ participants[i].qty % 2 = 0

\* field k of a bulk line, trimmed; empty when the line has no such field
FieldOf(line, k) == IF Len(line) >= k THEN trim(line[k]) ELSE ""

\* a bulk line passes the validation of Register: field 1 is a name, field 2 a
\* positive integer
ValidLine(line) == FieldOf(line, 1) # "" /\ PositiveInteger(FieldOf(line, 2))

\* the participants a batch adds to the registry ps: its valid lines, in input
\* order, whose name is neither registered nor accepted earlier in the batch
RECURSIVE AcceptedLines(_, _, _)
AcceptedLines(lines, ps, acc) ==
  IF lines = <<>> THEN acc
  ELSE LET line == Head(lines)
       IN  IF /\ ValidLine(line)
              /\ ~Registered(ps \o acc, FieldOf(line, 1))
           THEN AcceptedLines(Tail(lines), ps,
                              Append(acc, [name |-> FieldOf(line, 1),
                                           qty |-> Number(FieldOf(line, 2)).h]))
           ELSE AcceptedLines(Tail(lines), ps, acc)

\* C12: BulkRegister appends, in input order, exactly the valid lines whose
\* name collides neither with the registry nor with a name accepted earlier in
\* the batch; the skipped count is the number of the other non-blank lines,
\* and blank lines are not counted.
C12_BulkRegister ==
  [][\A raw \in BulkInputs :
       BulkImportWith(raw, TRUE) =>
         /\ participants' = participants \o AcceptedLines(raw, participants, <<>>)
         /\ BulkResult(raw, participants).skipped
              = Len(SelectSeq(raw, NonBlank))
                  - Len(AcceptedLines(raw, participants, <<>>))
    ]_vars

\* C13: Register leaves the registry as it is when the name is empty, when the
\* count is not a positive integer or when the name is registered
\* case-insensitively; otherwise it appends exactly that participant.
C13_Register ==
  [][\A nameIn \in NameInputs, qtyIn \in QtyInputs :
       AddParticipantWith(nameIn, qtyIn, TRUE) =>
         IF \/ trim(nameIn) = ""
            \/ ~PositiveInteger(qtyIn)
            \/ Registered(participants, trim(nameIn))
         THEN participants' = participants
         ELSE participants' = Append(participants,
                                     [name |-> trim(nameIn), qty |-> Number(qtyIn).h])
    ]_vars

\* the step appends one record to the winner ledger
WinnerAppended == Len(winners') = Len(winners) + 1

\* the record a step has appended to the winner ledger, and to the audit log
NewWinner == winners'[Len(winners')]

NewRow == audit'[Len(audit')]

\* C14: a draw that succeeds appends one Winner record and one Audit row, and
\* the row has the name, the ticket number and the prize of that record and
\* the ticket-count the participant has in the registry at that moment.
C14_AuditMirrorsWinner ==
  [][/\ WinnerAppended <=> Len(audit') = Len(audit) + 1
     /\ WinnerAppended =>
          /\ SubSeq(winners', 1, Len(winners)) = winners
          /\ SubSeq(audit', 1, Len(audit)) = audit
          /\ NewRow.Participante = NewWinner.name
          /\ NewRow.Cupom = NewWinner.couponNumber
          /\ NewRow.Premio = NewWinner.prize
          /\ \E i \in DOMAIN participants :
               /\ participants[i].name = NewWinner.name
               /\ participants[i].qty = NewRow.QtdeCupons
    ]_vars

\* C15: the Winner record appended when a countdown draw settles is an entry
\* of the pool derived from the registry and the ledger as they are at that
\* moment.
C15_SettlesOnCurrentPool ==
  [][(rolling /\ WinnerAppended) =>
       \E k \in DOMAIN couponsPool :
         /\ couponsPool[k].name = NewWinner.name
         /\ couponsPool[k].couponNumber = NewWinner.couponNumber
    ]_vars

\* C17: at most one rolling timer is active; a timer is active only while the
\* engine is rolling; in Idle and after the teardown of the component no timer
\* is active.
C17_OneRollingTimer ==
  /\ Cardinality(intervals) <= 1
  /\ intervals # {} => rolling
  /\ (countdown = 0 /\ ~rolling) => intervals = {}
  /\ ~mounted => intervals = {}

\* the engine is in Idle
Idle == countdown = 0 /\ ~rolling

\* C16: a countdown draw initiated in Idle with an eligible ticket and an
\* un-awarded prize shows 3, 2, 1 in that order, then the engine rolls, then
\* one Winner record is appended as it returns to Idle, which it eventually
\* does; the countdown starts only in Idle and the engine rolls only after
\* the countdown.
C16_CountdownSequence ==
  /\ [][/\ (drawWithCountdown /\ Idle /\ ~C7_NoTicket /\ ~C7_NoPrize) =>
            countdown' = 3 /\ ~rolling'
        /\ countdown' # countdown =>
            \/ Idle /\ countdown' = 3 /\ drawWithCountdown
            \/ countdown > 1 /\ countdown' = countdown - 1 /\ ~rolling'
            \/ countdown = 1 /\ countdown' = 0 /\ rolling'
        /\ rolling' # rolling =>
            \/ ~rolling /\ countdown = 1 /\ countdown' = 0
            \/ rolling /\ Idle' /\ WinnerAppended
        /\ (~Idle /\ ~Idle') => winners' = winners
       ]_vars
  /\ \A n \in 1..3 : (countdown = n) ~> (countdown = n - 1)
  /\ rolling ~> Idle
  /\ (lastOp = Op("drawWithCountdown", "started")) ~> (lastOp = Op("settle", "win"))

\* a countdown draw has rolled and settled with the one Winner record of the ledger
C16_Witness ==
  /\ lastOp = Op("settle", "win")
  /\ Idle
  /\ rollView # NoRollView
  /\ Len(winners) = 1

\* xs' is xs with one record appended
AppendsOne(xs, ys) == Len(ys) = Len(xs) + 1 /\ SubSeq(ys, 1, Len(xs)) = xs

C19_FrameWhileBusy ==
  [][(countdown > 0 \/ rolling) =>
       /\ ~ENABLED resetWinners
       /\ ~ENABLED hardReset
       /\ ~ENABLED clearAudit
       /\ (countdown' > 0 \/ rolling') => UNCHANGED <<winners, audit>>
       /\ (draw \/ drawWithCountdown) =>
            lastOp'.res = "refused" /\ UNCHANGED <<winners, audit>>
       /\ countdownStep =>
            UNCHANGED <<participants, prizes, winners, audit, rollView>>
       /\ rollTick =>
            UNCHANGED <<participants, prizes, winners, audit, countdown,
                        rolling, rollTimerRef, intervals>>
    ]_vars

\* the roll view is showing a ticket while the ledger holds a Winner record
C19_Witness ==
  /\ lastOp = Op("rollTick", "ok")
  /\ rolling
  /\ rollView # NoRollView
  /\ Len(winners) = 1

\* C20: counting from an empty ledger, the k-th successful draw awards the
\* prize with draw-order k, and a draw initiated in Idle with an eligible
\* ticket is turned down for lack of prizes only when the ledger has a Winner
\* record for every prize of the registry, two prizes of the same name included.
C20_EveryPrizeAwarded ==
  [][/\ ((draw \/ drawWithCountdown) /\ Idle /\ ~C7_NoTicket
           /\ Len(winners) < Len(prizes)) =>
          lastOp'.res \in {"win", "started"}
     /\ WinnerAppended =>
          /\ Len(winners) < Len(prizes)
          /\ NewWinner.prize = prizes[Len(winners) + 1].name
    ]_vars

\* the tickets 1..ticket-count of a participant (the count is in halves)
AllTickets(p) == {n \in 1..p.qty : 2 * n <= p.qty}

C22_EditCount ==
  [][\A i \in DOMAIN participants :
       \A newQty \in BoxValues(i, EditInputs) :
         EditParticipantQtyWith(i, newQty, TRUE) =>
           /\ Len(participants') = Len(participants)
           /\ \A j \in DOMAIN participants :
                /\ participants'[j].name = participants[j].name
                /\ j # i => participants'[j].qty = participants[j].qty
           /\ participants'[i].qty >= 0
           /\ participants'[i].qty % 2 = 0
           /\ PositiveInteger(newQty) => participants'[i].qty = Number(newQty).h
           /\ newQty \in {"", "0"} => participants'[i].qty = 0
           /\ \A j \in DOMAIN participants' :
                participants'[j].qty = 0 =>
                  ~\E k \in DOMAIN couponsPool' :
                     couponsPool'[k].name = participants'[j].name
    ]_vars

====
